---- MODULE Spec2Model ----
(***************************************************************************)
(* Model of list.h: the singly linked list generated by MAKE_LIST_OF(T) /  *)
(* MAKE_LIST_OF_WITH_DELETE(T), with the heap made explicit.               *)
(*                                                                         *)
(* The heap is a finite set of node cells 1..MaxNodes; NULL is 0.  A cell  *)
(* is "live" (returned by malloc and not yet freed) or "free".  malloc may *)
(* hand out any free cell, or fail and return NULL.  The contents of a     *)
(* free cell are indeterminate, so the model keeps none for it.  free() of *)
(* a cell that is not live is recorded in dfree; a read or write through a *)
(* pointer that is NULL or not live is recorded in invalid; a loop that    *)
(* outruns the heap is recorded in diverged.                               *)
(***************************************************************************)
EXTENDS Integers, Sequences, FiniteSets

\* ------------------------------------------------------------------ bounds
MaxNodes == 3
MaxVal == 2

\* --------------------------------------------------------------- constants
NULL == 0
GOT_OK == 0
GOT_OUT_OF_BOUNDS == 1
GOT_EMPTY_LIST == 2
\* delete's two return values
DELETED == 0
NOT_DELETED == 1
\* what a function declared void hands to its caller
VOID == 0 - 1
\* an int that was declared and never assigned (main.c: int fst_elem;)
Unset == 0

Addr == 1..MaxNodes
Values == 1..MaxVal
\* size_t index arguments tried by the caller: every position, and the length
\* of a full heap (beyond the end of every shorter list)
Indexes == 0..MaxNodes
\* more loop iterations than the heap has cells means the loop never ends
Fuel == MaxNodes + 1

VARIABLES
    mem,        \* the node cells: [value, next, st]
    head,       \* list->head
    listSt,     \* the list struct: "none" (not made), "live", "freed"
    op,         \* the last operation the caller issued
    arg,        \* its value or index argument
    ret,        \* what it returned
    result,     \* the caller's T variable whose address is passed to get
    allocFail,  \* malloc returned NULL inside the last operation
    invalid,    \* some operation went through a NULL or non-live pointer
    dfree,      \* some free() was given a cell that is not live
    diverged,   \* some loop did not end
    appended,   \* the values appended (allocation succeeding) since make;
                \* the record is dropped when a delete succeeds
    deleted,    \* some delete has succeeded since make
    count,      \* appends whose allocation succeeded less deletes that
                \* returned 0, since make
    delCurrent, \* current and previous of the last operation, if a delete,
    delPrevious \* as they were when it returned; NULL otherwise

vars == <<mem, head, listSt, op, arg, ret, result, allocFail,
          invalid, dfree, diverged, appended, deleted, count,
          delCurrent, delPrevious>>

\* ---------------------------------------------------------- heap accesses
Live(m, p) == p # NULL /\ m[p].st = "live"

NextOf(m, p) == IF p = NULL THEN NULL ELSE m[p].next

ValueOf(m, p) == IF p = NULL THEN Unset ELSE m[p].value

SetNext(m, p, n) == IF p = NULL THEN m ELSE [m EXCEPT ![p].next = n]

\* the pointers malloc(sizeof(Node)) can return
MallocNode(m) == {NULL} \cup {a \in Addr : m[a].st # "live"}

\* a cell outside any allocation
FreeCell == [value |-> Unset, next |-> NULL, st |-> "free"]

\* free(p), p # NULL
FreeNode(m, p) == [m EXCEPT ![p] = FreeCell]

\* ------------------------------------------------------ LinkedList_T_new
\* a is what malloc returned
LinkedList_T_new(value, m, a) ==
    IF a = NULL
    THEN [ptr |-> NULL, mem |-> m]
    ELSE [ptr |-> a,
          mem |-> [m EXCEPT ![a] = [value |-> value, next |-> NULL, st |-> "live"]]]

\* ----------------------------------------------------- LinkedList_T_free
\* the slip of freeing the node before reading its next field
RECURSIVE Mut_free_loop_FreeFirst(_, _, _)
Mut_free_loop_FreeFirst(m, current, fuel) ==
    IF current = NULL
    THEN [mem |-> m, invalid |-> FALSE, dfree |-> FALSE, diverged |-> FALSE]
    ELSE IF fuel = 0
    THEN [mem |-> m, invalid |-> FALSE, dfree |-> FALSE, diverged |-> TRUE]
    ELSE LET m1 == FreeNode(m, current)
             next == NextOf(m1, current)
             r == Mut_free_loop_FreeFirst(m1, next, fuel - 1)
         IN [r EXCEPT !.invalid = TRUE,
                      !.dfree = @ \/ ~Live(m, current)]

\* while (current != NULL) { next = current->next; free(current); current = next; }
RECURSIVE LinkedList_T_free_loop(_, _, _)
LinkedList_T_free_loop(m, current, fuel) ==
    IF current = NULL
    THEN [mem |-> m, invalid |-> FALSE, dfree |-> FALSE, diverged |-> FALSE]
    ELSE IF fuel = 0
    THEN [mem |-> m, invalid |-> FALSE, dfree |-> FALSE, diverged |-> TRUE]
    ELSE LET next == NextOf(m, current)
             r == LinkedList_T_free_loop(FreeNode(m, current), next, fuel - 1)
         IN [r EXCEPT !.invalid = @ \/ ~Live(m, current),
                      !.dfree = @ \/ ~Live(m, current)]

\* the loop over the nodes, then free(list)
LinkedList_T_free(m, h, ls) ==
    LET r == LinkedList_T_free_loop(m, h, Fuel)
    IN [mem |-> r.mem, listSt |-> "freed", invalid |-> r.invalid,
        dfree |-> r.dfree \/ ls # "live", diverged |-> r.diverged]

\* ----------------------------------------------------- LinkedList_T_make
\* the slip of leaving out list->head = NULL: head keeps what the memory held
Mut_make_NoHeadInit(h, ls, ok) ==
    IF ~ok
    THEN [ptr |-> NULL, head |-> h, listSt |-> ls]
    ELSE [ptr |-> 1, head |-> h, listSt |-> "live"]

\* ok: malloc(sizeof(LinkedList_T)) succeeded
LinkedList_T_make(h, ls, ok) ==
    IF ~ok
    THEN [ptr |-> NULL, head |-> h, listSt |-> ls]
    ELSE [ptr |-> 1, head |-> NULL, listSt |-> "live"]

\* --------------------------------------------------- LinkedList_T_append
\* while (current->next != NULL) current = current->next;
RECURSIVE LinkedList_T_append_loop(_, _, _)
LinkedList_T_append_loop(m, current, fuel) ==
    IF NextOf(m, current) = NULL
    THEN [current |-> current, invalid |-> ~Live(m, current), diverged |-> FALSE]
    ELSE IF fuel = 0
    THEN [current |-> current, invalid |-> FALSE, diverged |-> TRUE]
    ELSE LET r == LinkedList_T_append_loop(m, NextOf(m, current), fuel - 1)
         IN [r EXCEPT !.invalid = @ \/ ~Live(m, current)]

\* the slip of linking the new node in front of the list
Mut_append_Prepend(value, m, h, a) ==
    LET n == LinkedList_T_new(value, m, a)
    IN [mem |-> SetNext(n.mem, n.ptr, h),
        head |-> IF n.ptr = NULL THEN h ELSE n.ptr, ret |-> VOID,
        invalid |-> FALSE, diverged |-> FALSE]

\* the slip of storing the new node in list->head in both branches
Mut_append_StoreInHead(value, m, h, a) ==
    LET n == LinkedList_T_new(value, m, a)
    IN [mem |-> n.mem, head |-> n.ptr, ret |-> VOID,
        invalid |-> FALSE, diverged |-> FALSE]

\* the slip of pointing the new last node back at the head
Mut_append_Ring(value, m, h, a) ==
    IF h = NULL
    THEN LET n == LinkedList_T_new(value, m, a)
         IN [mem |-> n.mem, head |-> n.ptr, ret |-> VOID,
             invalid |-> FALSE, diverged |-> FALSE]
    ELSE LET t == LinkedList_T_append_loop(m, h, Fuel)
             n == LinkedList_T_new(value, m, a)
         IN [mem |-> SetNext(SetNext(n.mem, t.current, n.ptr), n.ptr, h),
             head |-> h, ret |-> VOID,
             invalid |-> t.invalid, diverged |-> t.diverged]

\* a is what malloc returns inside LinkedList_T_new; the function is void
LinkedList_T_append(value, m, h, a) ==
    IF h = NULL
    THEN LET n == LinkedList_T_new(value, m, a)
         IN [mem |-> n.mem, head |-> n.ptr, ret |-> VOID,
             invalid |-> FALSE, diverged |-> FALSE]
    ELSE LET t == LinkedList_T_append_loop(m, h, Fuel)
             n == LinkedList_T_new(value, m, a)
         IN [mem |-> SetNext(n.mem, t.current, n.ptr), head |-> h, ret |-> VOID,
             invalid |-> t.invalid, diverged |-> t.diverged]

\* --------------------------------------------------- LinkedList_T_delete
\* the slip of leaving out previous = current
RECURSIVE Mut_delete_loop_NoPrevious(_, _, _, _, _, _)
Mut_delete_loop_NoPrevious(value, m, h, current, previous, fuel) ==
    IF current = NULL
    THEN [ret |-> NOT_DELETED, mem |-> m, head |-> h,
          current |-> current, previous |-> previous,
          invalid |-> FALSE, dfree |-> FALSE, diverged |-> FALSE]
    ELSE IF fuel = 0
    THEN [ret |-> NOT_DELETED, mem |-> m, head |-> h,
          current |-> current, previous |-> previous,
          invalid |-> FALSE, dfree |-> FALSE, diverged |-> TRUE]
    ELSE IF ValueOf(m, current) = value
    THEN LET m1 == SetNext(m, previous, NextOf(m, current))
             h1 == IF current = h THEN NextOf(m1, current) ELSE h
         IN [ret |-> DELETED, mem |-> FreeNode(m1, current), head |-> h1,
             current |-> current, previous |-> previous,
             invalid |-> ~Live(m, current) \/ ~Live(m, previous),
             dfree |-> ~Live(m1, current), diverged |-> FALSE]
    ELSE LET r == Mut_delete_loop_NoPrevious(value, m, h, NextOf(m, current),
                                             previous, fuel - 1)
         IN [r EXCEPT !.invalid = @ \/ ~Live(m, current)]

\* the slip of relinking before the comparison, on every iteration
RECURSIVE Mut_delete_loop_RelinkAlways(_, _, _, _, _, _)
Mut_delete_loop_RelinkAlways(value, m, h, current, previous, fuel) ==
    IF current = NULL
    THEN [ret |-> NOT_DELETED, mem |-> m, head |-> h,
          current |-> current, previous |-> previous,
          invalid |-> FALSE, dfree |-> FALSE, diverged |-> FALSE]
    ELSE IF fuel = 0
    THEN [ret |-> NOT_DELETED, mem |-> m, head |-> h,
          current |-> current, previous |-> previous,
          invalid |-> FALSE, dfree |-> FALSE, diverged |-> TRUE]
    ELSE LET m1 == SetNext(m, previous, NextOf(m, current))
         IN IF ValueOf(m1, current) = value
            THEN LET h1 == IF current = h THEN NextOf(m1, current) ELSE h
                 IN [ret |-> DELETED, mem |-> FreeNode(m1, current), head |-> h1,
                     current |-> current, previous |-> previous,
                     invalid |-> ~Live(m, current) \/ ~Live(m, previous),
                     dfree |-> ~Live(m1, current), diverged |-> FALSE]
            ELSE LET r == Mut_delete_loop_RelinkAlways(value, m1, h,
                              NextOf(m1, current), current, fuel - 1)
                 IN [r EXCEPT !.invalid = @ \/ ~Live(m, current)
                                          \/ ~Live(m, previous)]

\* the slip of leaving out the update of list->head
RECURSIVE Mut_delete_loop_NoHeadUpdate(_, _, _, _, _, _)
Mut_delete_loop_NoHeadUpdate(value, m, h, current, previous, fuel) ==
    IF current = NULL
    THEN [ret |-> NOT_DELETED, mem |-> m, head |-> h,
          current |-> current, previous |-> previous,
          invalid |-> FALSE, dfree |-> FALSE, diverged |-> FALSE]
    ELSE IF fuel = 0
    THEN [ret |-> NOT_DELETED, mem |-> m, head |-> h,
          current |-> current, previous |-> previous,
          invalid |-> FALSE, dfree |-> FALSE, diverged |-> TRUE]
    ELSE IF ValueOf(m, current) = value
    THEN LET m1 == SetNext(m, previous, NextOf(m, current))
         IN [ret |-> DELETED, mem |-> FreeNode(m1, current), head |-> h,
             current |-> current, previous |-> previous,
             invalid |-> ~Live(m, current) \/ ~Live(m, previous),
             dfree |-> ~Live(m1, current), diverged |-> FALSE]
    ELSE LET r == Mut_delete_loop_NoHeadUpdate(value, m, h, NextOf(m, current),
                                               current, fuel - 1)
         IN [r EXCEPT !.invalid = @ \/ ~Live(m, current)]

\* the slip of advancing current before previous = current, so that previous
\* is current again at every comparison
RECURSIVE Mut_delete_loop_PreviousAliases(_, _, _, _, _, _)
Mut_delete_loop_PreviousAliases(value, m, h, current, previous, fuel) ==
    IF current = NULL
    THEN [ret |-> NOT_DELETED, mem |-> m, head |-> h,
          current |-> current, previous |-> previous,
          invalid |-> FALSE, dfree |-> FALSE, diverged |-> FALSE]
    ELSE IF fuel = 0
    THEN [ret |-> NOT_DELETED, mem |-> m, head |-> h,
          current |-> current, previous |-> previous,
          invalid |-> FALSE, dfree |-> FALSE, diverged |-> TRUE]
    ELSE IF ValueOf(m, current) = value
    THEN LET m1 == SetNext(m, previous, NextOf(m, current))
             h1 == IF current = h THEN NextOf(m1, current) ELSE h
         IN [ret |-> DELETED, mem |-> FreeNode(m1, current), head |-> h1,
             current |-> current, previous |-> previous,
             invalid |-> ~Live(m, current) \/ ~Live(m, previous),
             dfree |-> ~Live(m1, current), diverged |-> FALSE]
    ELSE LET r == Mut_delete_loop_PreviousAliases(value, m, h, NextOf(m, current),
                                                  NextOf(m, current), fuel - 1)
         IN [r EXCEPT !.invalid = @ \/ ~Live(m, current)]

\* the slip of leaving out free(current)
RECURSIVE Mut_delete_loop_NoFree(_, _, _, _, _, _)
Mut_delete_loop_NoFree(value, m, h, current, previous, fuel) ==
    IF current = NULL
    THEN [ret |-> NOT_DELETED, mem |-> m, head |-> h,
          current |-> current, previous |-> previous,
          invalid |-> FALSE, dfree |-> FALSE, diverged |-> FALSE]
    ELSE IF fuel = 0
    THEN [ret |-> NOT_DELETED, mem |-> m, head |-> h,
          current |-> current, previous |-> previous,
          invalid |-> FALSE, dfree |-> FALSE, diverged |-> TRUE]
    ELSE IF ValueOf(m, current) = value
    THEN LET m1 == SetNext(m, previous, NextOf(m, current))
             h1 == IF current = h THEN NextOf(m1, current) ELSE h
         IN [ret |-> DELETED, mem |-> m1, head |-> h1,
             current |-> current, previous |-> previous,
             invalid |-> ~Live(m, current) \/ ~Live(m, previous),
             dfree |-> FALSE, diverged |-> FALSE]
    ELSE LET r == Mut_delete_loop_NoFree(value, m, h, NextOf(m, current),
                                         current, fuel - 1)
         IN [r EXCEPT !.invalid = @ \/ ~Live(m, current)]

\* the loop returns with current at the match (NULL without one) and previous
\* at the node visited before it
RECURSIVE LinkedList_T_delete_loop(_, _, _, _, _, _)
LinkedList_T_delete_loop(value, m, h, current, previous, fuel) ==
    IF current = NULL
    THEN [ret |-> NOT_DELETED, mem |-> m, head |-> h,
          current |-> current, previous |-> previous,
          invalid |-> FALSE, dfree |-> FALSE, diverged |-> FALSE]
    ELSE IF fuel = 0
    THEN [ret |-> NOT_DELETED, mem |-> m, head |-> h,
          current |-> current, previous |-> previous,
          invalid |-> FALSE, dfree |-> FALSE, diverged |-> TRUE]
    ELSE IF ValueOf(m, current) = value
    THEN LET m1 == SetNext(m, previous, NextOf(m, current))
             h1 == IF current = h THEN NextOf(m1, current) ELSE h
         IN [ret |-> DELETED, mem |-> FreeNode(m1, current), head |-> h1,
             current |-> current, previous |-> previous,
             invalid |-> ~Live(m, current) \/ ~Live(m, previous),
             dfree |-> ~Live(m1, current), diverged |-> FALSE]
    ELSE LET r == LinkedList_T_delete_loop(value, m, h, NextOf(m, current),
                                           current, fuel - 1)
         IN [r EXCEPT !.invalid = @ \/ ~Live(m, current)]

\* current = list->head; previous = current; then the loop
LinkedList_T_delete(value, m, h) ==
    LinkedList_T_delete_loop(value, m, h, h, h, Fuel)

\* ------------------------------------------------------ LinkedList_T_len
\* the slip of stopping at the last node instead of after it
RECURSIVE Mut_len_loop_StopAtLast(_, _, _, _)
Mut_len_loop_StopAtLast(m, current, len, fuel) ==
    IF NextOf(m, current) = NULL
    THEN [len |-> len, invalid |-> ~Live(m, current), diverged |-> FALSE]
    ELSE IF fuel = 0
    THEN [len |-> len, invalid |-> FALSE, diverged |-> TRUE]
    ELSE LET r == Mut_len_loop_StopAtLast(m, NextOf(m, current), len + 1, fuel - 1)
         IN [r EXCEPT !.invalid = @ \/ ~Live(m, current)]

\* the slip of leaving out current = current->next
RECURSIVE Mut_len_loop_NoAdvance(_, _, _, _)
Mut_len_loop_NoAdvance(m, current, len, fuel) ==
    IF current = NULL
    THEN [len |-> len, invalid |-> FALSE, diverged |-> FALSE]
    ELSE IF fuel = 0
    THEN [len |-> len, invalid |-> FALSE, diverged |-> TRUE]
    ELSE LET r == Mut_len_loop_NoAdvance(m, current, len + 1, fuel - 1)
         IN [r EXCEPT !.invalid = @ \/ ~Live(m, current)]

RECURSIVE LinkedList_T_len_loop(_, _, _, _)
LinkedList_T_len_loop(m, current, len, fuel) ==
    IF current = NULL
    THEN [len |-> len, invalid |-> FALSE, diverged |-> FALSE]
    ELSE IF fuel = 0
    THEN [len |-> len, invalid |-> FALSE, diverged |-> TRUE]
    ELSE LET r == LinkedList_T_len_loop(m, NextOf(m, current), len + 1, fuel - 1)
         IN [r EXCEPT !.invalid = @ \/ ~Live(m, current)]

\* len = 0; current = list->head; the loop; the list is only read
LinkedList_T_len(m, h) ==
    LET r == LinkedList_T_len_loop(m, h, 0, Fuel)
    IN [len |-> r.len, mem |-> m, head |-> h,
        invalid |-> r.invalid, diverged |-> r.diverged]

\* ------------------------------------------------------ LinkedList_T_get
\* while (i < index) { current = current->next; ++i; }
RECURSIVE LinkedList_T_get_loop(_, _, _, _)
LinkedList_T_get_loop(m, current, i, index) ==
    IF ~(i < index)
    THEN [current |-> current, invalid |-> FALSE]
    ELSE LET r == LinkedList_T_get_loop(m, NextOf(m, current), i + 1, index)
         IN [r EXCEPT !.invalid = @ \/ ~Live(m, current)]

\* the slip of comparing with < where the code has <= ("bigger than the length")
Mut_get_StrictBound(index, m, h, res) ==
    LET l == LinkedList_T_len(m, h)
    IN IF l.len = 0
       THEN [ret |-> GOT_EMPTY_LIST, result |-> res,
             mem |-> m, head |-> h,
             invalid |-> l.invalid, diverged |-> l.diverged]
       ELSE IF l.len < index
       THEN [ret |-> GOT_OUT_OF_BOUNDS, result |-> res,
             mem |-> m, head |-> h,
             invalid |-> l.invalid, diverged |-> l.diverged]
       ELSE LET g == LinkedList_T_get_loop(m, h, 0, index)
            IN [ret |-> GOT_OK, result |-> ValueOf(m, g.current),
                mem |-> m, head |-> h,
                invalid |-> l.invalid \/ g.invalid \/ ~Live(m, g.current),
                diverged |-> l.diverged]

\* the slip of testing the bound before the emptiness
Mut_get_BoundFirst(index, m, h, res) ==
    LET l == LinkedList_T_len(m, h)
    IN IF l.len <= index
       THEN [ret |-> GOT_OUT_OF_BOUNDS, result |-> res,
             mem |-> m, head |-> h,
             invalid |-> l.invalid, diverged |-> l.diverged]
       ELSE IF l.len = 0
       THEN [ret |-> GOT_EMPTY_LIST, result |-> res,
             mem |-> m, head |-> h,
             invalid |-> l.invalid, diverged |-> l.diverged]
       ELSE LET g == LinkedList_T_get_loop(m, h, 0, index)
            IN [ret |-> GOT_OK, result |-> ValueOf(m, g.current),
                mem |-> m, head |-> h,
                invalid |-> l.invalid \/ g.invalid \/ ~Live(m, g.current),
                diverged |-> l.diverged]

\* the slip of walking with list->head itself instead of the local current
Mut_get_AdvanceHead(index, m, h, res) ==
    LET l == LinkedList_T_len(m, h)
    IN IF l.len = 0
       THEN [ret |-> GOT_EMPTY_LIST, result |-> res,
             mem |-> m, head |-> h,
             invalid |-> l.invalid, diverged |-> l.diverged]
       ELSE IF l.len <= index
       THEN [ret |-> GOT_OUT_OF_BOUNDS, result |-> res,
             mem |-> m, head |-> h,
             invalid |-> l.invalid, diverged |-> l.diverged]
       ELSE LET g == LinkedList_T_get_loop(m, h, 0, index)
            IN [ret |-> GOT_OK, result |-> ValueOf(m, g.current),
                mem |-> m, head |-> g.current,
                invalid |-> l.invalid \/ g.invalid \/ ~Live(m, g.current),
                diverged |-> l.diverged]

\* the slip of storing current->value in *result before the two checks
Mut_get_WriteEarly(index, m, h, res) ==
    LET l == LinkedList_T_len(m, h)
    IN IF l.len = 0
       THEN [ret |-> GOT_EMPTY_LIST, result |-> ValueOf(m, h),
             mem |-> m, head |-> h,
             invalid |-> TRUE, diverged |-> l.diverged]
       ELSE IF l.len <= index
       THEN [ret |-> GOT_OUT_OF_BOUNDS, result |-> ValueOf(m, h),
             mem |-> m, head |-> h,
             invalid |-> l.invalid \/ ~Live(m, h), diverged |-> l.diverged]
       ELSE LET g == LinkedList_T_get_loop(m, h, 0, index)
            IN [ret |-> GOT_OK, result |-> ValueOf(m, g.current),
                mem |-> m, head |-> h,
                invalid |-> l.invalid \/ g.invalid \/ ~Live(m, g.current),
                diverged |-> l.diverged]

\* res is *result before the call
LinkedList_T_get(index, m, h, res) ==
    LET l == LinkedList_T_len(m, h)
    IN IF l.len = 0
       THEN [ret |-> GOT_EMPTY_LIST, result |-> res,
             mem |-> m, head |-> h,
             invalid |-> l.invalid, diverged |-> l.diverged]
       ELSE IF l.len <= index
       THEN [ret |-> GOT_OUT_OF_BOUNDS, result |-> res,
             mem |-> m, head |-> h,
             invalid |-> l.invalid, diverged |-> l.diverged]
       ELSE LET g == LinkedList_T_get_loop(m, h, 0, index)
            IN [ret |-> GOT_OK, result |-> ValueOf(m, g.current),
                mem |-> m, head |-> h,
                invalid |-> l.invalid \/ g.invalid \/ ~Live(m, g.current),
                diverged |-> l.diverged]

\* ------------------------------------------------------------ the caller
Init ==
    /\ mem = [a \in Addr |-> FreeCell]
    /\ head = NULL
    /\ listSt = "none"
    /\ op = "start"
    /\ arg = 0
    /\ ret = VOID
    /\ result = Unset
    /\ allocFail = FALSE
    /\ invalid = FALSE
    /\ dfree = FALSE
    /\ diverged = FALSE
    /\ appended = <<>>
    /\ deleted = FALSE
    /\ count = 0
    /\ delCurrent = NULL
    /\ delPrevious = NULL

\* ll = LinkedList_T_make(); a program makes its next list after freeing this one
DoMake ==
    /\ listSt # "live"
    /\ \E ok \in BOOLEAN :
         \E r \in {LinkedList_T_make(head, listSt, ok)} :
            /\ head' = r.head
            /\ listSt' = r.listSt
            /\ ret' = r.ptr
            /\ allocFail' = ~ok
    /\ op' = "make"
    /\ arg' = 0
    /\ appended' = <<>>
    /\ deleted' = FALSE
    /\ count' = 0
    /\ delCurrent' = NULL
    /\ delPrevious' = NULL
    /\ UNCHANGED <<mem, result, invalid, dfree, diverged>>

\* LinkedList_T_append(value, ll)
DoAppend ==
    /\ listSt = "live"
    /\ \E value \in Values, a \in MallocNode(mem) :
         \E r \in {LinkedList_T_append(value, mem, head, a)} :
            /\ mem' = r.mem
            /\ head' = r.head
            /\ ret' = r.ret
            /\ arg' = value
            /\ allocFail' = (a = NULL)
            /\ invalid' = (invalid \/ r.invalid)
            /\ diverged' = (diverged \/ r.diverged)
            /\ appended' = IF a # NULL /\ ~deleted
                           THEN Append(appended, value) ELSE appended
            /\ count' = IF a # NULL THEN count + 1 ELSE count
    /\ op' = "append"
    /\ delCurrent' = NULL
    /\ delPrevious' = NULL
    /\ UNCHANGED <<listSt, result, dfree, deleted>>

\* LinkedList_T_delete(value, ll)
DoDelete ==
    /\ listSt = "live"
    /\ \E value \in Values :
         \E r \in {LinkedList_T_delete(value, mem, head)} :
            /\ mem' = r.mem
            /\ head' = r.head
            /\ ret' = r.ret
            /\ arg' = value
            /\ invalid' = (invalid \/ r.invalid)
            /\ dfree' = (dfree \/ r.dfree)
            /\ diverged' = (diverged \/ r.diverged)
            /\ deleted' = (deleted \/ r.ret = DELETED)
            /\ appended' = IF r.ret = DELETED THEN <<>> ELSE appended
            /\ count' = IF r.ret = DELETED THEN count - 1 ELSE count
            /\ delCurrent' = r.current
            /\ delPrevious' = r.previous
    /\ op' = "delete"
    /\ allocFail' = FALSE
    /\ UNCHANGED <<listSt, result>>

\* LinkedList_T_len(ll)
DoLen ==
    /\ listSt = "live"
    /\ \E r \in {LinkedList_T_len(mem, head)} :
          /\ ret' = r.len
          /\ mem' = r.mem
          /\ head' = r.head
          /\ invalid' = (invalid \/ r.invalid)
          /\ diverged' = (diverged \/ r.diverged)
    /\ op' = "len"
    /\ arg' = 0
    /\ allocFail' = FALSE
    /\ delCurrent' = NULL
    /\ delPrevious' = NULL
    /\ UNCHANGED <<listSt, result, dfree, appended, deleted, count>>

\* LinkedList_T_get(index, ll, &result)
DoGet ==
    /\ listSt = "live"
    /\ \E index \in Indexes :
         \E r \in {LinkedList_T_get(index, mem, head, result)} :
            /\ ret' = r.ret
            /\ result' = r.result
            /\ mem' = r.mem
            /\ head' = r.head
            /\ arg' = index
            /\ invalid' = (invalid \/ r.invalid)
            /\ diverged' = (diverged \/ r.diverged)
    /\ op' = "get"
    /\ allocFail' = FALSE
    /\ delCurrent' = NULL
    /\ delPrevious' = NULL
    /\ UNCHANGED <<listSt, dfree, appended, deleted, count>>

\* LinkedList_T_free(ll)
DoFree ==
    /\ listSt = "live"
    /\ \E r \in {LinkedList_T_free(mem, head, listSt)} :
          /\ mem' = r.mem
          /\ listSt' = r.listSt
          /\ invalid' = (invalid \/ r.invalid)
          /\ dfree' = (dfree \/ r.dfree)
          /\ diverged' = (diverged \/ r.diverged)
    /\ op' = "free"
    /\ arg' = 0
    /\ ret' = VOID
    /\ allocFail' = FALSE
    /\ delCurrent' = NULL
    /\ delPrevious' = NULL
    /\ UNCHANGED <<head, result, appended, deleted, count>>

Next == DoMake \/ DoAppend \/ DoDelete \/ DoLen \/ DoGet \/ DoFree

Spec == Init /\ [][Next]_vars

\* ------------------------------------------------- the list as a sequence
\* the values met by following next from p, at most fuel of them
RECURSIVE ContentsFrom(_, _, _)
ContentsFrom(m, p, fuel) ==
    IF p = NULL \/ fuel = 0
    THEN <<>>
    ELSE <<m[p].value>> \o ContentsFrom(m, m[p].next, fuel - 1)

Contents == ContentsFrom(mem, head, Fuel)

\* the nodes met by following next from p, at most fuel of them
RECURSIVE ChainFrom(_, _, _)
ChainFrom(m, p, fuel) ==
    IF p = NULL \/ fuel = 0
    THEN <<>>
    ELSE <<p>> \o ChainFrom(m, m[p].next, fuel - 1)

\* one more step than there are cells: a walk that long met some node twice
Chain == ChainFrom(mem, head, MaxNodes + 1)

\* the nodes allocated and not yet freed
LiveSet == {a \in Addr : mem[a].st = "live"}

\* the nodes reachable from head
Reach == {Chain[i] : i \in 1..Len(Chain)}

\* what LinkedList_T_len(list) returns when called in this state
ListLen == LinkedList_T_len(mem, head).len

InSeq(v, s) == \E i \in 1..Len(s) : s[i] = v

\* s without its first occurrence of v
RemoveFirst(s, v) ==
    IF ~InSeq(v, s)
    THEN s
    ELSE LET i == CHOOSE k \in 1..Len(s) :
                      s[k] = v /\ \A j \in 1..(k - 1) : s[j] # v
         IN SubSeq(s, 1, i - 1) \o SubSeq(s, i + 1, Len(s))

NoLiveNode == \A a \in Addr : mem[a].st # "live"

\* ------------------------------------------------------------------ claims

\* C1: after make and any appends whose allocations succeed (and no delete),
\* get(i) for every i below the number of appends returns GOT_OK and stores
\* the i-th appended value: append adds at the end and reorders nothing.
C1_OrderPreservation ==
    (op = "get" /\ arg < Len(appended)) =>
        (ret = GOT_OK /\ result = appended[arg + 1])

C1_Witness ==
    /\ op = "get" /\ ret = GOT_OK
    /\ Len(appended) >= 2 /\ arg = Len(appended) - 1
    /\ appended[1] # appended[Len(appended)]

\* C2: a delete of a value that occurs in the list returns 0 and leaves the
\* list's contents with exactly the first occurrence of the value removed.
C2_DeleteLeftmost ==
    [][(op' = "delete" /\ InSeq(arg', Contents)) =>
           (ret' = DELETED /\ Contents' = RemoveFirst(Contents, arg'))]_vars

\* a later duplicate of the deleted value, behind another element, is kept
C2_Witness ==
    /\ op = "delete" /\ ret = DELETED
    /\ Len(Contents) = 2 /\ Contents[1] # arg /\ Contents[2] = arg

C4_EmptyFirst ==
    (op = "get" /\ head = NULL) => ret = GOT_EMPTY_LIST

\* a list emptied again by deletes, asked for an index other than 0
C4_Witness ==
    /\ op = "get" /\ head = NULL /\ deleted
    /\ arg > 0 /\ ret = GOT_EMPTY_LIST

\* C5: a delete of a value that does not occur in the list (the empty list
\* included) returns 1, frees nothing and changes neither head nor any node.
C5_DeleteMissing ==
    [][(op' = "delete" /\ ~InSeq(arg', Contents)) =>
           (ret' = NOT_DELETED /\ mem' = mem /\ head' = head)]_vars

C5_Witness ==
    /\ op = "delete" /\ ret = NOT_DELETED
    /\ Len(Contents) >= 2

\* C6: after make and N appends whose allocations succeed (and no delete),
\* len returns N; it returns 0 for a list just made.
C6_LengthCorrect ==
    (op = "len" /\ ~deleted) => ret = Len(appended)

C6_Witness ==
    /\ op = "len" /\ ~deleted
    /\ ret >= 2 /\ ret = Len(appended)

\* C7: free leaves no node allocated and the list struct freed, frees nothing
\* twice (nodes freed by earlier deletes included) and reads no freed node.
C7_TeardownSafety ==
    (op = "free") =>
        (listSt = "freed" /\ NoLiveNode /\ ~dfree /\ ~invalid)

\* free of a list that still had nodes, after some delete had freed others
C7_Witness ==
    /\ op = "free" /\ listSt = "freed"
    /\ head # NULL /\ deleted

\* C8: an append whose allocation failed hands its caller a result that
\* differs from that of a successful append.
C8_AppendSignalsFailure ==
    (op = "append" /\ allocFail) => ret # VOID

\* C9: an append whose allocation failed leaves head and every node as they
\* were.
C9_AppendAtomic ==
    [][(op' = "append" /\ allocFail') => (mem' = mem /\ head' = head)]_vars

C9_Witness ==
    /\ op = "append" /\ allocFail
    /\ Len(Contents) >= 1

\* C10: a delete of the value of the first element returns 0 and makes the
\* former second node (none for a one-element list) the head; once a delete
\* has emptied the list, len returns 0, get returns GOT_EMPTY_LIST and an
\* append (allocation succeeding) makes a one-element list of its value.
C10_DeleteHead ==
    [][/\ (op' = "delete" /\ Contents # <<>> /\ Head(Contents) = arg') =>
              /\ ret' = DELETED
              /\ head' = NextOf(mem, head)
              /\ Contents' = Tail(Contents)
       /\ (op = "delete" /\ ret = DELETED /\ head = NULL) =>
              /\ op' = "len" => ret' = 0
              /\ op' = "get" => ret' = GOT_EMPTY_LIST
              /\ (op' = "append" /\ ~allocFail') => Contents' = <<arg'>>
      ]_vars

\* the delete of the only element
C10_Witness ==
    /\ op = "delete" /\ ret = DELETED
    /\ head = NULL /\ NoLiveNode

\* C11: make either returns a list whose head is NULL (so its length is 0),
\* or, its allocation failing, returns NULL and leaves everything as it was;
\* either way it allocates and frees no node.
C11_MakeAllOrNothing ==
    [][op' = "make" =>
           /\ mem' = mem
           /\ IF allocFail'
              THEN ret' = NULL /\ listSt' = listSt /\ head' = head
              ELSE ret' # NULL /\ listSt' = "live" /\ head' = NULL
                   /\ Contents' = <<>>
      ]_vars

\* a list made after an earlier, populated list was freed
C11_Witness ==
    /\ op = "make" /\ ~allocFail
    /\ listSt = "live" /\ head = NULL /\ result # Unset

\* make failing
C11_WitnessFail ==
    /\ op = "make" /\ allocFail /\ ret = NULL /\ listSt # "live"

\* C12: while the list exists, following next from head reaches NULL within
\* as many steps as there are cells, meets no node twice, and no node's next
\* points at itself or at a node before it in the chain.
C12_Acyclic ==
    (listSt = "live") =>
        /\ Len(Chain) <= MaxNodes
        /\ \A i, j \in 1..Len(Chain) : i # j => Chain[i] # Chain[j]
        /\ \A i, j \in 1..Len(Chain) : j <= i => mem[Chain[i]].next # Chain[j]

\* a chain grown again by an append after a delete had unlinked a node
C12_Witness ==
    /\ listSt = "live" /\ op = "append" /\ ~allocFail /\ deleted
    /\ Len(Chain) >= 2

\* C13: while the list exists, the nodes allocated and not freed are exactly
\* those reachable from head, and no operation so far went through a freed
\* (or NULL) pointer or freed a node twice; a delete that returns 0 frees
\* exactly one node, which was reachable, held the value and is reachable no
\* more.
C13_Ownership ==
    [][/\ (listSt' = "live") =>
              (LiveSet' = Reach' /\ ~invalid' /\ ~dfree')
       /\ (op' = "delete" /\ ret' = DELETED) =>
              \E x \in LiveSet :
                  /\ LiveSet' = LiveSet \ {x}
                  /\ x \in Reach /\ x \notin Reach'
                  /\ mem[x].value = arg'
      ]_vars

\* a delete that unlinked and freed a node from the inside of the list
C13_Witness ==
    /\ op = "delete" /\ ret = DELETED
    /\ Cardinality(LiveSet) >= 2 /\ LiveSet = Reach
    /\ delCurrent \notin LiveSet /\ delCurrent # delPrevious

\* C14: when a delete relinks around a match that is not the head, previous
\* is another node than current, previous->next is current, and the relink
\* leaves previous->next at the match's successor; previous is current only
\* when the match is the head, and then no node other than the match changes.
C14_PredecessorTracking ==
    [][(op' = "delete" /\ ret' = DELETED) =>
           /\ (delCurrent' # head) =>
                  /\ delPrevious' # delCurrent'
                  /\ NextOf(mem, delPrevious') = delCurrent'
                  /\ NextOf(mem', delPrevious') = NextOf(mem, delCurrent')
           /\ (delPrevious' = delCurrent') => (delCurrent' = head)
           /\ (delCurrent' = head) =>
                  \A a \in Addr \ {delCurrent'} : mem'[a] = mem[a]
      ]_vars

\* the match was the second node: previous is the head, which stays the head
C14_Witness ==
    /\ op = "delete" /\ ret = DELETED
    /\ head # NULL /\ delPrevious = head /\ delCurrent # head

\* C15: in every state of a live list, what len returns (and what the last
\* len call did return) is the number of appends whose allocation succeeded
\* less the number of deletes that returned 0.  As that count goes up by 1
\* with a successful append, down by 1 with a successful delete and stays
\* with a failed append or a delete that returns 1, so does what len returns.
C15_LenNeverStale ==
    (listSt = "live") =>
        /\ ListLen = count
        /\ (op = "len") => (ret = count)

\* len called on a list that deletes and appends have both changed
C15_Witness ==
    /\ op = "len" /\ deleted
    /\ ret >= 2 /\ ret = count

\* C16: a call of get or len, whatever it returns, leaves head, every node
\* and the list struct as they were and allocates and frees nothing; a get
\* that returns GOT_OK stores the value of the node index steps from head.
C16_ReadOnly ==
    [][(op' \in {"get", "len"}) =>
           /\ mem' = mem /\ head' = head /\ listSt' = listSt
           /\ (op' = "get" /\ ret' = GOT_OK) =>
                  (arg' < Len(Contents) /\ result' = Contents[arg' + 1])
      ]_vars

\* a get that walked to the last of several nodes
C16_Witness ==
    /\ op = "get" /\ ret = GOT_OK
    /\ arg >= 1 /\ arg = Len(Contents) - 1 /\ result = Contents[arg + 1]

\* C17: no operation so far ran a loop that did not end, and in every state
\* of a live list each traversal loop, started now and allowed as many
\* iterations as the list has nodes, ends: len's and free's loops, delete's
\* loop for every value (one that is in no node included) and append's walk
\* to the tail.  (get's loop counts i up to index, which is below len.)
C17_Termination ==
    /\ ~diverged
    /\ (listSt = "live") =>
           LET n == Cardinality(LiveSet)
           IN /\ ~LinkedList_T_len_loop(mem, head, 0, n).diverged
              /\ ~LinkedList_T_free_loop(mem, head, n).diverged
              /\ \A v \in 1..(MaxVal + 1) :
                     ~LinkedList_T_delete_loop(v, mem, head, head, head, n).diverged
              /\ (head # NULL) =>
                     ~LinkedList_T_append_loop(mem, head, n).diverged
              /\ LinkedList_T_len_loop(mem, head, 0, n).len = n

\* every cell of the heap is a node of the list: the longest traversals
C17_Witness ==
    /\ listSt = "live" /\ op = "len" /\ ~diverged
    /\ ret = MaxNodes /\ Len(Chain) = MaxNodes

\* C18: a get that returns GOT_EMPTY_LIST or GOT_OUT_OF_BOUNDS leaves the
\* caller's variable as it was before the call (unset, if it was never
\* assigned); a get that returns GOT_OK assigns it an element's value.
C18_ResultOnlyOnSuccess ==
    [][(op' = "get") =>
           IF ret' = GOT_OK
           THEN result' \in Values
           ELSE ret' \in {GOT_EMPTY_LIST, GOT_OUT_OF_BOUNDS} /\ result' = result
      ]_vars

\* a failed get on a list emptied after an earlier get had succeeded: the
\* variable still holds the earlier value
C18_Witness ==
    /\ op = "get" /\ ret = GOT_EMPTY_LIST /\ result # Unset

\* the demo caller after a failed append: get fails and the variable is unset
C18_WitnessUnset ==
    /\ op = "get" /\ ret = GOT_EMPTY_LIST /\ result = Unset /\ ~deleted

====
